---- MODULE Spec2Model ----
(***************************************************************************)
(* Model of AutotaskService.fetch_tickets_with_details                     *)
(* (src/app/services/autotask.py): the pagination loop, the per-ticket     *)
(* detail fetches gated by an asyncio.Semaphore, and the 429 retry policy  *)
(* fetch_with_retry.                                                       *)
(*                                                                         *)
(* One action is the code a coroutine runs between two suspension points   *)
(* (await): asyncio is cooperative, so that code is atomic.  The upstream  *)
(* (Autotask REST API) is the environment: it answers a Tickets/query with *)
(* any page of distinct tickets whose id is above the cursor sent, in any  *)
(* order (the request names no sort order), and a TicketNotes/query or     *)
(* TimeEntries/query with success, HTTP 429, another HTTP error status, a  *)
(* network failure, or a body whose "items" is null.                       *)
(***************************************************************************)
EXTENDS Integers, Sequences, FiniteSets, TLC

\* ---------------------------------------------------------------- bounds
\* Ticket ids of the upstream are 1..MaxId.
MaxId == 2
\* max_tickets (page cap) ranges over 1..MaxCap.
MaxCap == 2
\* concurrent_limit ranges over 1..MaxLimit.
MaxLimit == 2
\* The upstream misbehaves (429, error, null items, malformed ticket) at most
\* MaxFaults times in one run.
MaxFaults == 3
\* fetch_tickets_with_details is invoked at most MaxRuns times in a row.
MaxRuns == 2
\* The upstream faults of one run when several runs follow each other.
MaxRunFaults == 1
\* store_tickets_with_details is given at most MaxStore tickets.
MaxStore == 2
\* The database answers at most MaxDbFaults upserts with no rows or an error.
MaxDbFaults == 3
\* The same, for a storage called by a /sync route.
MaxSyncDbFaults == 1
\* The upstream faults of a run called by a /sync route, failed Tickets/query
\* requests not counted.
MaxSyncFaults == 0
\* A chat request carries at most MaxHistory earlier messages.
MaxHistory == 1
\* A table to embed holds at most MaxRows rows.
MaxRows == 3
\* batch_size is at most MaxBatch.
MaxBatch == 2
\* The embedding service fails at most MaxEmbedFaults times.
MaxEmbedFaults == 1

\* ---------------------------------------------------------------- constants
\* fetch_with_retry(url, payload, entity_type, max_retries=3)
max_retries == 3
\* database.py line 787: max_retries = 3 of the ticket upsert
upsert_max_retries == 3
\* A ticket item without an "id" key: ticket["id"] raises KeyError.
NoId == 0

\* response.json().get("items", []) when the body holds "items": null
NoneVal == <<-1>>

\* What the upstream holds for a ticket (the items of a successful response).
NotesOf(id) == <<10 * id + 1>>
TimeEntriesOf(id) == <<10 * id + 2>>
ItemsOf(entity, id) == IF entity = "notes" THEN NotesOf(id) ELSE TimeEntriesOf(id)

\* Answers of a child endpoint to one POST.
Responses == {"ok", "null", "r429", "http_err", "net_err"}

VARIABLES
    max_tickets,               \* effective page cap (line 54)
    concurrent_limit,          \* effective limit (line 55)
    semaphore,                 \* free slots of asyncio.Semaphore (line 63)
    last_ticket_id,            \* the cursor (line 58, 176)
    all_tickets_with_details,  \* accumulated records (line 57, 175)
    tickets,                   \* the page being processed (line 90)
    tasks,                     \* one fetch_ticket_details_limited per ticket of the page
    pc,                        \* where the run is suspended
    cursors,                   \* history: the cursor of every Tickets/query sent
    pageSizes,                 \* history: the size of every page received
    faults,                    \* history: upstream faults so far
    fault_budget,              \* upstream faults the run may meet
    ordered,                   \* TRUE: the upstream serves a fixed ticket set
    upstream,                  \* that ticket set (ids in the date range)
    run,                       \* history: number of this invocation
    earlier,                   \* history: final cursor of the run before
    child_requests,            \* history: child requests sent so far in the run,
                               \*          by ticket id (where they are counted)
    tickets_data,              \* store: the records to store
    idx,                       \* store: position of the for loop, from 1
    store_pc,                  \* store: "idle", "ticket", "sleep", "notes",
                               \*        "time_entries", "done"
    retry_count,               \* store: failed ticket upserts of this ticket
    ticket_stored,             \* store: the ticket upsert returned rows
    stats,                     \* store: the SyncStats being filled
    db,                        \* the rows of the three tables
    db_faults,                 \* history: upserts answered badly so far
    db_budget,                 \* upserts the database may answer badly
    store_log,                 \* history: every upsert and every sleep
    endpoint,                  \* sync: the route called, "none" outside /sync
    start_date,                \* sync: the request's start_date string
    end_date,                  \* sync: the request's end_date string
    sync_pc,                   \* sync: "idle", "called", "fetch", "store",
                               \*       "responded"
    http_status,               \* sync: status answered, 0 before the answer
    request,                   \* chat: the MCPChatRequest
    chat_pc,                   \* chat: "idle", "called", "n8n", "mcp", "responded"
    chat_log,                  \* chat history: the calls made and how they ended
    result,                    \* chat: the local result
    source,                    \* chat: the local source
    response,                  \* chat: what the endpoint answered
    embed_table,               \* embed: the table synced
    table_rows,                \* embed: the table's rows, by id
    rows_at_start,             \* embed history: the rows when sync_table began
    manager,                   \* embed: batch_size, force, dry_run
    total_records,             \* embed: the count taken at the start
    offset,                    \* embed: the local offset
    embed_pc,                  \* embed: "idle", "count", "batch", "generate",
                               \*        "sleep", "done"
    embed_stats,               \* embed: the local stats
    batch,                     \* embed: the rows of the batch being embedded
    embed_faults,              \* embed history: failures of the service so far
    detail                     \* record: one ticket object and the record built
                               \*         from it at the end of its detail fetch

fetchVars == <<max_tickets, concurrent_limit, semaphore, last_ticket_id,
               all_tickets_with_details, tickets, tasks, pc, cursors, pageSizes,
               faults>>

\* What no step of a run changes, but for the count of the requests sent.
runEnv == <<fault_budget, ordered, upstream, run, earlier, child_requests>>

fixedEnv == <<fault_budget, ordered, upstream, run, earlier>>

\* State of the other components, which no step of a run changes.
storeVars == <<tickets_data, idx, store_pc, retry_count, ticket_stored, stats,
               db, db_faults, db_budget, store_log>>

syncVars == <<endpoint, start_date, end_date, sync_pc, http_status>>

chatVars == <<request, chat_pc, chat_log, result, source, response>>

embedVars == <<embed_table, table_rows, rows_at_start, manager, total_records, offset,
               embed_pc, embed_stats, batch, embed_faults>>

recordVars == <<detail>>

outsideFetch == <<storeVars, syncVars, chatVars, embedVars, recordVars>>

\* State that no step of the storage changes.
outsideStore == <<fetchVars, runEnv, syncVars, chatVars, embedVars, recordVars>>

\* State that no step of a /sync route changes, but for what its fetch and
\* its storage do.
outsideSync == <<chatVars, embedVars, recordVars>>

\* State that no step of the chat endpoint changes.
outsideChat == <<fetchVars, runEnv, storeVars, syncVars, embedVars, recordVars>>

\* State that no step of sync_table changes.
outsideEmbed == <<fetchVars, runEnv, storeVars, syncVars, chatVars, recordVars>>

\* State that the building of a record does not change.
outsideRecord == <<fetchVars, runEnv, storeVars, syncVars, chatVars, embedVars>>

vars == <<fetchVars, runEnv, outsideFetch>>

\* ---------------------------------------------------------------- helpers
Last(s) == s[Len(s)]

RECURSIVE SeqMax(_)
SeqMax(s) == IF Len(s) = 1 THEN s[1]
             ELSE LET m == SeqMax(Tail(s)) IN IF s[1] > m THEN s[1] ELSE m

Injective(f) == \A i, j \in DOMAIN f : i # j => f[i] # f[j]

\* The activation of fetch_with_retry for one sub-request: its state (st), the
\* loop variable attempt, and what it has seen and done so far.
IdleFrame == [st |-> "idle", attempt |-> 0, responses |-> <<>>,
              sleeps |-> <<>>, ret |-> <<>>]

\* Mutant of wait_time: the exponent is off by one (3 s, 6 s, 12 s).
wait_time_shifted(attempt) == (2 ^ (attempt + 1)) * 1500

\* line 118: wait_time = (2 ** attempt) * 1.5 seconds, in milliseconds
wait_time(attempt) == (2 ^ attempt) * 1500

\* line 121: if attempt == max_retries - 1
IsLastAttempt(attempt) == attempt = max_retries - 1

\* Mutant of IsRateLimit: every HTTP error status is retried like a 429.
IsRateLimitOrStatus(resp) == resp \in {"r429", "http_err"}

\* line 116: if e.response.status_code == 429
IsRateLimit(resp) == resp = "r429"

\* lines 110-112: the POST of an attempt is issued
StartCall(f) == [f EXCEPT !.st = "req"]

\* lines 112-129: the answer to the POST of the current attempt
OnResponse(f, resp, items) ==
    LET g == [f EXCEPT !.responses = Append(@, resp)] IN
    IF resp = "ok" THEN [g EXCEPT !.st = "ret", !.ret = items]
    ELSE IF resp = "null" THEN [g EXCEPT !.st = "ret", !.ret = NoneVal]
    ELSE IF IsRateLimit(resp)
         THEN [g EXCEPT !.st = "sleep", !.sleeps = Append(@, wait_time(f.attempt))]
    ELSE [g EXCEPT !.st = "ret", !.ret = <<>>]

\* line 110: for attempt in range(max_retries)
InRange(attempt) == attempt < max_retries

\* Mutant of AfterBackoff: a bare "return" (None) once the retries are used up.
AfterBackoffReturnsNone(f) ==
    IF f.attempt = max_retries - 1
    THEN [f EXCEPT !.st = "ret", !.ret = NoneVal]
    ELSE [f EXCEPT !.st = "req", !.attempt = @ + 1]

\* lines 120-123: the backoff sleep is over; return [] after the last attempt
\* (line 123) or when the loop runs out (line 130), else the next attempt
AfterBackoff(f) ==
    IF IsLastAttempt(f.attempt) \/ ~InRange(f.attempt + 1)
    THEN [f EXCEPT !.st = "ret", !.ret = <<>>]
    ELSE [f EXCEPT !.st = "req", !.attempt = @ + 1]

\* lines 161-165
MergedRecord(tk, notes, time_entries) ==
    [ticket |-> tk, notes |-> notes, time_entries |-> time_entries]

\* line 168
DegradedRecord(tk) == [ticket |-> tk, notes |-> <<>>, time_entries |-> <<>>]

\* line 159: len(notes), len(time_entries) raise TypeError on None
LenRaises(notes, time_entries) == notes = NoneVal \/ time_entries = NoneVal

\* Mutant of Outcome: a failed sub-request empties the whole record.
OutcomeAllOrNothing(tk, notes, time_entries) ==
    IF notes = <<>> \/ time_entries = <<>> \/ LenRaises(notes, time_entries)
    THEN DegradedRecord(tk)
    ELSE MergedRecord(tk, notes, time_entries)

\* lines 159-168: the end of the try block
Outcome(tk, notes, time_entries) ==
    IF LenRaises(notes, time_entries) THEN DegradedRecord(tk)
    ELSE MergedRecord(tk, notes, time_entries)

\* Mutant of CanAcquire: the last slot is never handed out.
CanAcquireButLast(value) == value > 1

\* Mutant of CanAcquire: the counter test is off by one.
CanAcquireOffByOne(value) == value >= 0

\* asyncio.Semaphore.acquire does not wait while a slot is free
CanAcquire(value) == value > 0

\* line 176: last_ticket_id = tickets[-1]["id"]
NextCursor(tks) == Last(tks)

\* Mutant of PageExhausted: only an empty page ends the loop.
PageExhaustedOnlyEmpty(tks, cap) == Len(tks) = 0

\* line 181: if len(tickets) < max_tickets: break
PageExhausted(tks, cap) == Len(tks) < cap

NewTask(tk) == [ticket |-> tk, pc |-> "queued", exc |-> FALSE,
                notes |-> <<>>, time_entries |-> <<>>,
                nf |-> IdleFrame, tf |-> IdleFrame,
                out |-> DegradedRecord(tk)]

\* Pages the upstream may answer a Tickets/query with.
Candidates(cursor, budget) ==
    {i \in 1..MaxId : i > cursor} \cup (IF budget > 0 THEN {NoId} ELSE {})

Pages(cursor, cap, budget) ==
    UNION {{p \in [1..n -> Candidates(cursor, budget)] : Injective(p)} : n \in 0..cap}

Range(p) == {p[i] : i \in DOMAIN p}

\* The n lowest ids of S.
LowestN(S, n) == {x \in S : Cardinality({y \in S : y < x}) < n}

\* An upstream that serves a fixed ticket set answers with the cap lowest
\* matching tickets (filter id gt cursor, MaxRecords cap), well-formed.
UpstreamPages(cursor, cap, left) ==
    IF ordered
    THEN {p \in Pages(cursor, cap, 0) :
              Range(p) = LowestN({u \in upstream : u > cursor}, cap)}
    ELSE Pages(cursor, cap, left)

\* Mutant of InitialCursor: the cursor of the run before is resumed.
InitialCursorResumed(previous) == previous

\* line 58: last_ticket_id = 0
InitialCursor(previous) == 0

Running == {"delay1", "notes", "delay2", "time_entries"}

\* The child requests are not counted.
NotCounted == <<>>

\* The count after the POST of line 112 went out for the ticket, when frame f
\* is in a request.
Sent(counts, id, f) ==
    IF counts = NotCounted \/ f.st # "req" THEN counts
    ELSE [counts EXCEPT ![id] = @ + 1]

InFlight == {t \in DOMAIN tasks : tasks[t].pc \in Running}

\* ---------------------------------------------------------------- Init
\* Lines 54-87: the run is suspended in its first Tickets/query.
FetchInit ==
    /\ max_tickets \in 1..MaxCap
    /\ concurrent_limit \in 1..MaxLimit
    /\ semaphore = concurrent_limit
    /\ last_ticket_id = InitialCursor(0)
    /\ all_tickets_with_details = <<>>
    /\ tickets = <<>>
    /\ tasks = <<>>
    /\ pc = "tickets_query"
    /\ cursors = <<last_ticket_id>>
    /\ pageSizes = <<>>
    /\ faults = 0
    /\ run = 1
    /\ earlier = 0

\* class SyncStats: all counters 0, no errors
SyncStats == [tickets_processed |-> 0, tickets_inserted |-> 0,
              notes_inserted |-> 0, time_entries_inserted |-> 0,
              errors |-> <<>>]

EmptyDb == [tickets |-> {}, ticket_notes |-> {}, time_entries |-> {}]

\* The storage has not been called.
StoreIdle ==
    /\ tickets_data = <<>>
    /\ idx = 0
    /\ store_pc = "idle"
    /\ retry_count = 0
    /\ ticket_stored = FALSE
    /\ stats = SyncStats
    /\ db = EmptyDb
    /\ db_faults = 0
    /\ db_budget = 0
    /\ store_log = <<>>

\* No /sync route has been called.
SyncIdle ==
    /\ endpoint = "none"
    /\ start_date = ""
    /\ end_date = ""
    /\ sync_pc = "idle"
    /\ http_status = 0

\* fetch_tickets_with_details has not been called.
FetchIdle ==
    /\ max_tickets = 1
    /\ concurrent_limit = 1
    /\ semaphore = 1
    /\ last_ticket_id = 0
    /\ all_tickets_with_details = <<>>
    /\ tickets = <<>>
    /\ tasks = <<>>
    /\ pc = "not_called"
    /\ cursors = <<>>
    /\ pageSizes = <<>>
    /\ faults = 0
    /\ run = 0
    /\ earlier = 0
    /\ fault_budget = 0
    /\ ordered = FALSE
    /\ upstream = {}
    /\ child_requests = NotCounted

NoRequest ==
    [message |-> "", conversation_history |-> <<>>, session_id |-> "",
     use_test |-> FALSE, force_mcp |-> FALSE]

NoResponse == [status_code |-> 0, answer |-> "", source |-> ""]

\* json null, Python None
Null == [kind |-> "null", size |-> 0, has_answer |-> FALSE]

\* The chat endpoint has not been called.
ChatIdle ==
    /\ request = NoRequest
    /\ chat_pc = "idle"
    /\ chat_log = <<>>
    /\ result = Null
    /\ source = "unknown"
    /\ response = NoResponse

ZeroStats == [processed |-> 0, embedded |-> 0, skipped |-> 0, errors |-> 0]

\* sync_table has not been called.
EmbedIdle ==
    /\ embed_table = ""
    /\ table_rows = <<>>
    /\ rows_at_start = <<>>
    /\ manager = [batch_size |-> 1, force |-> FALSE, dry_run |-> FALSE]
    /\ total_records = 0
    /\ offset = 0
    /\ embed_pc = "idle"
    /\ embed_stats = ZeroStats
    /\ batch = [records |-> <<>>, valid_records |-> <<>>]
    /\ embed_faults = 0

NoDict == [id |-> 0]

\* No record is being built.
RecordIdle ==
    detail = [pc |-> "idle", received |-> NoDict, ticket |-> NoDict,
              notes |-> <<>>, time_entries |-> <<>>, record |-> NoDict]

\* One run against an upstream that may answer anything.
Init ==
    /\ FetchInit
    /\ StoreIdle
    /\ SyncIdle
    /\ ChatIdle
    /\ EmbedIdle
    /\ RecordIdle
    /\ fault_budget = MaxFaults
    /\ child_requests = NotCounted
    /\ ordered = FALSE
    /\ upstream = {}

\* ---------------------------------------------------------------- the run
\* Lines 88-101, 171: a page arrives; an empty one ends the loop (98-99),
\* any other starts one detail fetch per ticket and awaits them all.
TicketsQueryResponse(page) ==
    /\ pc = "tickets_query"
    /\ page \in Pages(Last(cursors), max_tickets, fault_budget - faults)
    /\ tickets' = page
    /\ pageSizes' = Append(pageSizes, Len(page))
    /\ faults' = faults + Cardinality({i \in DOMAIN page : page[i] = NoId})
    /\ tasks' = [i \in DOMAIN page |-> NewTask(page[i])]
    /\ pc' = IF page = <<>> THEN "returned" ELSE "gather"
    /\ UNCHANGED <<runEnv, outsideFetch>>
    /\ UNCHANGED <<max_tickets, concurrent_limit, semaphore, last_ticket_id,
                   all_tickets_with_details, cursors>>

\* Mutant of OnQueryError: the failure is taken for an empty page (break).
OnQueryErrorBreaks == "returned"

\* lines 93, 96: raise
OnQueryError == "raised"

\* Lines 91-96: the Tickets/query fails and the exception is re-raised.
TicketsQueryError ==
    /\ pc = "tickets_query"
    /\ pc' = OnQueryError
    /\ UNCHANGED <<runEnv, outsideFetch>>
    /\ UNCHANGED <<max_tickets, concurrent_limit, semaphore, last_ticket_id,
                   all_tickets_with_details, tickets, tasks, cursors, pageSizes,
                   faults>>

\* Lines 105-106, 134: a queued detail fetch gets a slot (waiters are served
\* in the order of the page).  A ticket without "id" raises KeyError outside
\* the try block: the slot is given back, the gather and so the run raise.
SemaphoreAcquire(t) ==
    /\ t \in DOMAIN tasks
    /\ tasks[t].pc = "queued"
    /\ \A u \in 1..(t - 1) : tasks[u].pc # "queued"
    /\ CanAcquire(semaphore)
    /\ IF tasks[t].ticket = NoId
       THEN /\ tasks' = [tasks EXCEPT ![t].pc = "raised", ![t].exc = TRUE]
            /\ pc' = "raised"
            /\ UNCHANGED semaphore
       ELSE /\ tasks' = [tasks EXCEPT ![t].pc = "delay1"]
            /\ semaphore' = semaphore - 1
            /\ UNCHANGED pc
    /\ UNCHANGED <<runEnv, outsideFetch>>
    /\ UNCHANGED <<max_tickets, concurrent_limit, last_ticket_id,
                   all_tickets_with_details, tickets, cursors, pageSizes, faults>>

\* Lines 134-144: the 0.3 s delay is over, the notes request is issued.
PolitenessDelayDone(t) ==
    /\ t \in DOMAIN tasks
    /\ tasks[t].pc = "delay1"
    /\ tasks' = [tasks EXCEPT ![t].pc = "notes", ![t].nf = StartCall(@)]
    /\ child_requests' = Sent(child_requests, tasks[t].ticket, tasks'[t].nf)
    /\ UNCHANGED <<fixedEnv, outsideFetch>>
    /\ UNCHANGED <<max_tickets, concurrent_limit, semaphore, last_ticket_id,
                   all_tickets_with_details, tickets, pc, cursors, pageSizes, faults>>

\* Lines 147-157: the 0.2 s delay is over, the time-entries request is issued
\* (the activation of the notes call is gone; its result lives on in notes).
SecondDelayDone(t) ==
    /\ t \in DOMAIN tasks
    /\ tasks[t].pc = "delay2"
    /\ tasks' = [tasks EXCEPT ![t].pc = "time_entries", ![t].nf = IdleFrame,
                               ![t].tf = StartCall(@)]
    /\ child_requests' = Sent(child_requests, tasks[t].ticket, tasks'[t].tf)
    /\ UNCHANGED <<fixedEnv, outsideFetch>>
    /\ UNCHANGED <<max_tickets, concurrent_limit, semaphore, last_ticket_id,
                   all_tickets_with_details, tickets, pc, cursors, pageSizes, faults>>

\* Mutant of Resume: the time-entries request goes out as soon as the notes
\* have resolved, without the 0.2 s delay.
ResumeWithoutSecondDelay(task, f) ==
    IF task.pc = "notes"
    THEN IF f.st = "ret"
         THEN [task EXCEPT !.nf = IdleFrame, !.notes = f.ret,
                           !.pc = "time_entries", !.tf = StartCall(@)]
         ELSE [task EXCEPT !.nf = f]
    ELSE IF f.st = "ret"
         THEN [task EXCEPT !.tf = f, !.time_entries = f.ret, !.pc = "done",
                           !.exc = LenRaises(task.notes, f.ret),
                           !.out = Outcome(task.ticket, task.notes, f.ret)]
         ELSE [task EXCEPT !.tf = f]

\* The detail fetch t after its current fetch_with_retry frame became f:
\* lines 137-147 (notes resolved: sleep 0.2 s) and 150-168 (time entries
\* resolved: the record is built, the slot is released).
Resume(task, f) ==
    IF task.pc = "notes"
    THEN IF f.st = "ret"
         THEN [task EXCEPT !.nf = f, !.notes = f.ret, !.pc = "delay2"]
         ELSE [task EXCEPT !.nf = f]
    ELSE IF f.st = "ret"
         THEN [task EXCEPT !.tf = f, !.time_entries = f.ret, !.pc = "done",
                           !.exc = LenRaises(task.notes, f.ret),
                           !.out = Outcome(task.ticket, task.notes, f.ret)]
         ELSE [task EXCEPT !.tf = f]

Frame(task) == IF task.pc = "notes" THEN task.nf ELSE task.tf

Entity(task) == IF task.pc = "notes" THEN "notes" ELSE "time_entries"

\* Mutant of Released: the slot is not given back when the try block raised.
ReleasedUnlessRaised(value, before, after) ==
    IF before.pc \in Running /\ after.pc \notin Running /\ ~after.exc
    THEN value + 1 ELSE value

\* release on leaving "async with semaphore"
Released(value, before, after) ==
    IF before.pc \in Running /\ after.pc \notin Running THEN value + 1 ELSE value

\* Lines 112-129: the upstream answers the POST of detail fetch t.  Once the
\* run has raised, the httpx client of the page is closed and a POST fails.
ChildResponse(t, resp) ==
    /\ t \in DOMAIN tasks
    /\ tasks[t].pc \in {"notes", "time_entries"}
    /\ Frame(tasks[t]).st = "req"
    /\ resp \in Responses
    /\ pc = "raised" => resp = "net_err"
    /\ (pc # "raised" /\ resp # "ok") => faults < fault_budget
    /\ LET f == OnResponse(Frame(tasks[t]), resp,
                           ItemsOf(Entity(tasks[t]), tasks[t].ticket))
           after == Resume(tasks[t], f)
       IN /\ tasks' = [tasks EXCEPT ![t] = after]
          /\ semaphore' = Released(semaphore, tasks[t], after)
    /\ faults' = IF pc # "raised" /\ resp # "ok" THEN faults + 1 ELSE faults
    /\ UNCHANGED <<runEnv, outsideFetch>>
    /\ UNCHANGED <<max_tickets, concurrent_limit, last_ticket_id,
                   all_tickets_with_details, tickets, pc, cursors, pageSizes>>

\* Lines 120-123: the backoff sleep of detail fetch t is over.
BackoffDone(t) ==
    /\ t \in DOMAIN tasks
    /\ tasks[t].pc \in {"notes", "time_entries"}
    /\ Frame(tasks[t]).st = "sleep"
    /\ LET after == Resume(tasks[t], AfterBackoff(Frame(tasks[t])))
       IN /\ tasks' = [tasks EXCEPT ![t] = after]
          /\ semaphore' = Released(semaphore, tasks[t], after)
    /\ child_requests' = Sent(child_requests, tasks[t].ticket, AfterBackoff(Frame(tasks[t])))
    /\ UNCHANGED <<fixedEnv, outsideFetch>>
    /\ UNCHANGED <<max_tickets, concurrent_limit, last_ticket_id,
                   all_tickets_with_details, tickets, pc, cursors, pageSizes, faults>>

\* Mutant of GatherResults: the results come latest task first.
GatherResultsReversed(ts) == [t \in DOMAIN ts |-> ts[Len(ts) + 1 - t].out]

\* lines 171-175: gather returns the results in the order of the tasks given,
\* and the list is extended with them
GatherResults(ts) == [t \in DOMAIN ts |-> ts[t].out]

\* Mutant of AllCompleted: the page is over with its first finished fetch.
AnyCompleted(ts) == \E t \in DOMAIN ts : ts[t].pc = "done"

\* lines 171-173: await asyncio.gather(...) returns when every task has
AllCompleted(ts) == \A t \in DOMAIN ts : ts[t].pc = "done"

\* Lines 171-186: every detail fetch of the page has returned.
GatherDone ==
    /\ pc = "gather"
    /\ AllCompleted(tasks)
    /\ all_tickets_with_details' = all_tickets_with_details \o GatherResults(tasks)
    /\ last_ticket_id' = NextCursor(tickets)
    /\ pc' = IF PageExhausted(tickets, max_tickets) THEN "returned" ELSE "pause"
    /\ UNCHANGED <<runEnv, outsideFetch>>
    /\ UNCHANGED <<max_tickets, concurrent_limit, semaphore, tickets, tasks,
                   cursors, pageSizes, faults>>

\* Lines 186, 65-87: the 2 s pause is over, the next Tickets/query is sent.
BatchPauseDone ==
    /\ pc = "pause"
    /\ cursors' = Append(cursors, last_ticket_id)
    /\ pc' = "tickets_query"
    /\ UNCHANGED <<runEnv, outsideFetch>>
    /\ UNCHANGED <<max_tickets, concurrent_limit, semaphore, last_ticket_id,
                   all_tickets_with_details, tickets, tasks, pageSizes, faults>>

Next ==
    \/ /\ pc = "tickets_query"
       /\ \E page \in UpstreamPages(Last(cursors), max_tickets, fault_budget - faults) :
              TicketsQueryResponse(page)
    \/ TicketsQueryError
    \/ \E t \in DOMAIN tasks : SemaphoreAcquire(t)
    \/ \E t \in DOMAIN tasks : PolitenessDelayDone(t)
    \/ \E t \in DOMAIN tasks : SecondDelayDone(t)
    \/ \E t \in DOMAIN tasks, resp \in Responses : ChildResponse(t, resp)
    \/ \E t \in DOMAIN tasks : BackoffDone(t)
    \/ GatherDone
    \/ BatchPauseDone

Spec == Init /\ [][Next]_vars

\* ------------------------------------------------ an upstream ticket set
\* One run against an upstream that holds a fixed set of tickets in range and
\* answers every Tickets/query with the lowest matching ones.
InitOrdered ==
    /\ FetchInit
    /\ StoreIdle
    /\ SyncIdle
    /\ ChatIdle
    /\ EmbedIdle
    /\ RecordIdle
    /\ fault_budget = MaxFaults
    /\ child_requests = NotCounted
    /\ ordered = TRUE
    /\ upstream \in SUBSET (1..MaxId)

SpecOrdered == InitOrdered /\ [][Next]_vars

\* ------------------------------------------------ runs in a row
\* Lines 54-87 again: the service is called once more after a run has ended
\* (returned or raised) and its detail fetches have all finished.
Invoke ==
    /\ pc \in {"returned", "raised"}
    /\ \A t \in DOMAIN tasks : tasks[t].pc \in {"done", "raised"}
    /\ run < MaxRuns
    /\ max_tickets' \in 1..MaxCap
    /\ concurrent_limit' \in 1..MaxLimit
    /\ semaphore' = concurrent_limit'
    /\ last_ticket_id' = InitialCursor(last_ticket_id)
    /\ all_tickets_with_details' = <<>>
    /\ tickets' = <<>>
    /\ tasks' = <<>>
    /\ pc' = "tickets_query"
    /\ cursors' = <<last_ticket_id'>>
    /\ pageSizes' = <<>>
    /\ faults' = 0
    /\ run' = run + 1
    /\ earlier' = last_ticket_id
    /\ child_requests' = IF child_requests = NotCounted THEN NotCounted
                         ELSE [i \in 1..MaxId |-> 0]
    /\ UNCHANGED <<fault_budget, ordered, upstream, outsideFetch>>

InitRuns ==
    /\ FetchInit
    /\ StoreIdle
    /\ SyncIdle
    /\ ChatIdle
    /\ EmbedIdle
    /\ RecordIdle
    /\ fault_budget = MaxRunFaults
    /\ child_requests = NotCounted
    /\ ordered = FALSE
    /\ upstream = {}

NextRuns == Next \/ Invoke

SpecRuns == InitRuns /\ [][NextRuns]_vars

\* ------------------------------------------------ a run that is scheduled
\* Every HTTP call and every sleep returns and the event loop runs what is
\* ready: a step that can be taken is not put off for ever.
SpecFair == InitRuns /\ [][Next]_vars /\ WF_vars(Next)

\* ------------------------------------------------ a run with its requests counted
\* One run against an upstream that may answer anything, with the child
\* requests sent for each ticket id counted.
InitCounted ==
    /\ FetchInit
    /\ StoreIdle
    /\ SyncIdle
    /\ ChatIdle
    /\ EmbedIdle
    /\ RecordIdle
    /\ fault_budget = MaxFaults
    /\ ordered = FALSE
    /\ upstream = {}
    /\ child_requests = [i \in 1..MaxId |-> 0]

SpecCounted == InitCounted /\ [][Next]_vars

\* ------------------------------------------------ store_tickets_with_details
\* What an upsert's execute() does: rows returned, no rows returned, or an
\* exception whose message is the value.
UpsertErrors == {"timeout", "constraint"}
UpsertOutcomes == {"data", "empty"} \cup UpsertErrors

\* lines 804-805: a keyword of the list occurs in the message
is_retriable(error) ==
    error \in {"ssl", "handshake", "timeout", "connection", "525", "503", "502"}

\* Mutant of retry_sleep: the exponent is off by one (1 s, 2 s).
retry_sleep_halved(count) == 2 ^ (count - 1)

\* line 810: asyncio.sleep(2 ** retry_count)
retry_sleep(count) == 2 ^ count

\* Mutant of WillRetry: every failed ticket upsert ends the attempts.
WillRetryNever(error, count) == FALSE

\* line 807: is_retriable and retry_count < max_retries
WillRetry(error, count) == is_retriable(error) /\ count < upsert_max_retries

Upsert(table, at, outcome) ==
    [op |-> "upsert", table |-> table, at |-> at,
     ticket |-> tickets_data[at].ticket, outcome |-> outcome]

Slept(at, seconds) ==
    [op |-> "sleep", table |-> "tickets", at |-> at,
     ticket |-> tickets_data[at].ticket, outcome |-> seconds]

\* upsert(..., on_conflict="id").execute() that did not raise: the rows are in
\* the table.
Written(table, rows, outcome) ==
    IF outcome \in UpsertErrors THEN db
    ELSE [db EXCEPT ![table] = @ \cup rows]

WithError(kind, id) == [stats EXCEPT !.errors = Append(@, <<kind, id>>)]

\* Lines 819-820, 835-836, 779: where the loop goes after the ticket upsert,
\* after the notes and after the time entries.
NextPhase(after, rec, i) ==
    IF after = "ticket" /\ rec.notes # <<>> THEN "notes"
    ELSE IF after \in {"ticket", "notes"} /\ rec.time_entries # <<>>
         THEN "time_entries"
         ELSE IF i < Len(tickets_data) THEN "ticket" ELSE "done"

\* Mutant of AfterNotes: a failed notes upsert ends the work on the ticket.
AfterNotesGivesUp(raised, rec, i) ==
    IF raised THEN NextPhase("time_entries", rec, i)
    ELSE NextPhase("notes", rec, i)

\* lines 829-835: the except clause falls through to the time entries
AfterNotes(raised, rec, i) == NextPhase("notes", rec, i)

\* Lines 779, 787-789: the for loop enters its next iteration when the phase
\* reached is the ticket upsert of the next record or the end.
Advance(phase) ==
    /\ store_pc' = phase
    /\ IF phase \in {"ticket", "done"}
       THEN idx' = idx + 1 /\ retry_count' = 0 /\ ticket_stored' = FALSE
       ELSE UNCHANGED <<idx, retry_count, ticket_stored>>

\* Lines 791-816: one pass of the while loop up to its sleep or its end.
TicketUpsert(outcome) ==
    /\ store_pc = "ticket"
    /\ outcome # "data" => db_faults < db_budget
    /\ LET rec == tickets_data[idx]
           id == rec.ticket
       IN /\ store_log' = Append(store_log, Upsert("tickets", idx, outcome))
          /\ db' = Written("tickets", {id}, outcome)
          /\ db_faults' = db_faults + (IF outcome = "data" THEN 0 ELSE 1)
          /\ IF outcome = "data"
             THEN /\ stats' = [stats EXCEPT !.tickets_processed = @ + 1,
                                           !.tickets_inserted = @ + 1]
                  /\ Advance(NextPhase("ticket", rec, idx))
             ELSE IF outcome = "empty"
             THEN /\ stats' = [stats EXCEPT !.tickets_processed = @ + 1]
                  /\ UNCHANGED <<store_pc, idx, retry_count, ticket_stored>>
             ELSE IF WillRetry(outcome, retry_count + 1)
             THEN /\ retry_count' = retry_count + 1
                  /\ store_pc' = "sleep"
                  /\ UNCHANGED <<stats, idx, ticket_stored>>
             ELSE /\ stats' = WithError("Ticket", id)
                  /\ Advance(NextPhase("ticket", rec, idx))
    /\ UNCHANGED <<tickets_data, db_budget, outsideStore>>

\* Line 810 ends: the while condition holds and the upsert is made again.
RetrySleepDone ==
    /\ store_pc = "sleep"
    /\ store_pc' = "ticket"
    /\ store_log' = Append(store_log, Slept(idx, retry_sleep(retry_count)))
    /\ UNCHANGED <<tickets_data, idx, retry_count, ticket_stored, stats, db,
                   db_faults, db_budget, outsideStore>>

\* Lines 819-832: the notes of the ticket, all in one upsert.
NotesUpsert(outcome) ==
    /\ store_pc = "notes"
    /\ outcome # "data" => db_faults < db_budget
    /\ LET rec == tickets_data[idx]
           id == rec.ticket
           rows == Range(rec.notes)
       IN /\ store_log' = Append(store_log, Upsert("ticket_notes", idx, outcome))
          /\ db' = Written("ticket_notes", rows, outcome)
          /\ db_faults' = db_faults + (IF outcome = "data" THEN 0 ELSE 1)
          /\ stats' = IF outcome = "data"
                      THEN [stats EXCEPT !.notes_inserted = @ + Cardinality(rows)]
                      ELSE IF outcome = "empty" THEN stats
                      ELSE WithError("Notes", id)
          /\ Advance(AfterNotes(outcome \in UpsertErrors, rec, idx))
    /\ UNCHANGED <<tickets_data, db_budget, outsideStore>>

\* Lines 835-848: the time entries of the ticket, all in one upsert.
TimeEntriesUpsert(outcome) ==
    /\ store_pc = "time_entries"
    /\ outcome # "data" => db_faults < db_budget
    /\ LET rec == tickets_data[idx]
           id == rec.ticket
           rows == Range(rec.time_entries)
       IN /\ store_log' = Append(store_log, Upsert("time_entries", idx, outcome))
          /\ db' = Written("time_entries", rows, outcome)
          /\ db_faults' = db_faults + (IF outcome = "data" THEN 0 ELSE 1)
          /\ stats' = IF outcome = "data"
                      THEN [stats EXCEPT
                               !.time_entries_inserted = @ + Cardinality(rows)]
                      ELSE IF outcome = "empty" THEN stats
                      ELSE WithError("Time entries", id)
          /\ Advance(NextPhase("time_entries", rec, idx))
    /\ UNCHANGED <<tickets_data, db_budget, outsideStore>>

StoreNext ==
    \/ \E outcome \in UpsertOutcomes : TicketUpsert(outcome)
    \/ RetrySleepDone
    \/ \E outcome \in UpsertOutcomes : NotesUpsert(outcome)
    \/ \E outcome \in UpsertOutcomes : TimeEntriesUpsert(outcome)

\* Lines 775-779: stats = SyncStats() and the for loop starts.
StoreCalled(data) ==
    [tickets_data |-> data,
     idx |-> IF data = <<>> THEN 0 ELSE 1,
     store_pc |-> IF data = <<>> THEN "done" ELSE "ticket",
     retry_count |-> 0,
     ticket_stored |-> FALSE,
     stats |-> SyncStats]

\* The records a run can return for the tickets 1..n: notes and time entries
\* each present or empty.
RecordsOf(id) ==
    {MergedRecord(id, n, t) : n \in {<<>>, NotesOf(id)}, t \in {<<>>, TimeEntriesOf(id)}}

StoreInputs ==
    UNION {{d \in [1..n -> UNION {RecordsOf(id) : id \in 1..MaxStore}] :
               \A i \in 1..n : d[i].ticket = i} : n \in 0..MaxStore}

\* store_tickets_with_details alone, on any list of records.
InitStore ==
    /\ FetchIdle
    /\ SyncIdle
    /\ ChatIdle
    /\ EmbedIdle
    /\ RecordIdle
    /\ db = EmptyDb
    /\ db_faults = 0
    /\ db_budget = MaxDbFaults
    /\ store_log = <<>>
    /\ \E data \in StoreInputs :
           LET called == StoreCalled(data)
           IN /\ tickets_data = called.tickets_data
              /\ idx = called.idx
              /\ store_pc = called.store_pc
              /\ retry_count = called.retry_count
              /\ ticket_stored = called.ticket_stored
              /\ stats = called.stats

SpecStore == InitStore /\ [][StoreNext]_vars

\* ------------------------------------------------ either service alone
\* fetch_tickets_with_details called once, or store_tickets_with_details
\* called once.
InitAlone == InitRuns \/ InitStore

FetchStep == pc # "not_called" /\ Next

StoreStep == store_pc # "idle" /\ StoreNext

NextAlone == FetchStep \/ StoreStep

SpecAlone == InitAlone /\ [][NextAlone]_vars

\* ------------------------------------------------ the /sync routes
Endpoints == {"last-7-days", "last-30-days", "custom"}

\* start_date and end_date strings of a CustomSyncRequest.
DateStrings == {"2024-01-01", "2024-01-08", "2024-01-08T00:00:00+00:00", "last week"}

ValueError == [err |-> TRUE, day |-> 0, aware |-> FALSE]

\* datetime.fromisoformat: the day of the date, whether it carries an offset,
\* or ValueError.
fromisoformat(string) ==
    IF string = "2024-01-01" THEN [err |-> FALSE, day |-> 1, aware |-> FALSE]
    ELSE IF string = "2024-01-08" THEN [err |-> FALSE, day |-> 8, aware |-> FALSE]
    ELSE IF string = "2024-01-08T00:00:00+00:00"
         THEN [err |-> FALSE, day |-> 8, aware |-> TRUE]
         ELSE ValueError

\* Mutant of OnHTTPException: the 400 is caught by "except Exception".
OnHTTPExceptionWrapped(status_code) == 500

\* lines 156-157: except HTTPException: raise
OnHTTPException(status_code) == status_code

\* Lines 119-132 with 156-160: the status answered before any fetch, 0 when
\* the dates pass.  Comparing a naive with an aware datetime raises TypeError.
Validate(route, s, e) ==
    IF route # "custom" THEN 0
    ELSE LET start == fromisoformat(s)
             end == fromisoformat(e)
         IN IF start.err \/ end.err THEN OnHTTPException(400)
            ELSE IF start.aware # end.aware THEN 500
            ELSE IF start.day >= end.day THEN OnHTTPException(400)
            ELSE 0

\* Mutant of FetchReturned: the records of a page are stored while the run
\* pauses before its next page.
FetchReturnedEarly(position) == position \in {"returned", "pause"}

\* lines 36, 80, 138: the await ends when the run returns its list
FetchReturned(position) == position = "returned"

\* Lines 28-42, 72-86, 118-144: the handler runs up to its first await: a bad
\* request is answered, otherwise fetch_tickets_with_details is called.
SyncCall ==
    /\ sync_pc = "called"
    /\ LET status == Validate(endpoint, start_date, end_date)
       IN IF status # 0
          THEN /\ sync_pc' = "responded"
               /\ http_status' = status
               /\ UNCHANGED <<pc, cursors>>
          ELSE /\ sync_pc' = "fetch"
               /\ pc' = "tickets_query"
               /\ cursors' = <<last_ticket_id>>
               /\ UNCHANGED http_status
    /\ UNCHANGED <<max_tickets, concurrent_limit, semaphore, last_ticket_id,
                   all_tickets_with_details, tickets, tasks, pageSizes, faults>>
    /\ UNCHANGED <<runEnv, storeVars, endpoint, start_date, end_date>>
    /\ UNCHANGED outsideSync

\* Lines 54-56, 98-100, 158-160: the fetch raised; except Exception answers 500.
SyncFetchRaised ==
    /\ sync_pc = "fetch"
    /\ pc = "raised"
    /\ sync_pc' = "responded"
    /\ http_status' = 500
    /\ UNCHANGED <<fetchVars, runEnv, storeVars, endpoint, start_date, end_date>>
    /\ UNCHANGED outsideSync

\* Lines 44, 88, 146: the fetch returned its list (its frame is gone) and
\* store_tickets_with_details is called with it.
SyncStore ==
    /\ sync_pc = "fetch"
    /\ FetchReturned(pc)
    /\ sync_pc' = "store"
    /\ semaphore' = concurrent_limit
    /\ last_ticket_id' = 0
    /\ tickets' = <<>>
    /\ tasks' = <<>>
    /\ cursors' = <<>>
    /\ pageSizes' = <<>>
    /\ faults' = 0
    /\ UNCHANGED <<max_tickets, concurrent_limit, pc, all_tickets_with_details>>
    /\ LET called == StoreCalled(all_tickets_with_details)
       IN /\ tickets_data' = called.tickets_data
          /\ idx' = called.idx
          /\ store_pc' = called.store_pc
          /\ retry_count' = called.retry_count
          /\ ticket_stored' = called.ticket_stored
          /\ stats' = called.stats
    /\ UNCHANGED <<db, db_faults, db_budget, store_log>>
    /\ UNCHANGED <<runEnv, endpoint, start_date, end_date, http_status>>
    /\ UNCHANGED outsideSync

\* Lines 46-53, 90-97, 148-155: the storage returned its stats; the response
\* is SyncResponse(status="success"), HTTP 200.
SyncRespond ==
    /\ sync_pc = "store"
    /\ store_pc = "done"
    /\ sync_pc' = "responded"
    /\ http_status' = 200
    /\ UNCHANGED <<fetchVars, runEnv, storeVars, endpoint, start_date, end_date>>
    /\ UNCHANGED outsideSync

\* The run's steps while the handler awaits it, and the steps of the detail
\* fetches a raised run has left behind.
SyncFetchStep ==
    /\ \/ sync_pc = "fetch" /\ pc \notin {"raised", "returned"}
       \/ sync_pc = "responded" /\ pc = "raised"
    /\ Next

SyncStoreStep == sync_pc = "store" /\ StoreNext

NextSync ==
    \/ SyncCall
    \/ SyncFetchStep
    \/ SyncFetchRaised
    \/ SyncStore
    \/ SyncStoreStep
    \/ SyncRespond

\* A request has reached one of the three routes.
InitSync ==
    /\ max_tickets \in 1..MaxCap
    /\ concurrent_limit \in 1..MaxLimit
    /\ semaphore = concurrent_limit
    /\ last_ticket_id = InitialCursor(0)
    /\ all_tickets_with_details = <<>>
    /\ tickets = <<>>
    /\ tasks = <<>>
    /\ pc = "not_called"
    /\ cursors = <<>>
    /\ pageSizes = <<>>
    /\ faults = 0
    /\ run = 1
    /\ earlier = 0
    /\ fault_budget = MaxSyncFaults
    /\ child_requests = NotCounted
    /\ ordered = FALSE
    /\ upstream = {}
    /\ tickets_data = <<>>
    /\ idx = 0
    /\ store_pc = "idle"
    /\ retry_count = 0
    /\ ticket_stored = FALSE
    /\ stats = SyncStats
    /\ db = EmptyDb
    /\ db_faults = 0
    /\ db_budget = MaxSyncDbFaults
    /\ store_log = <<>>
    /\ endpoint \in Endpoints
    /\ IF endpoint = "custom"
       THEN start_date \in DateStrings /\ end_date \in DateStrings
       ELSE start_date = "" /\ end_date = ""
    /\ sync_pc = "called"
    /\ http_status = 0
    /\ ChatIdle
    /\ EmbedIdle
    /\ RecordIdle

SpecSync == InitSync /\ [][NextSync]_vars

\* ------------------------------------------------ POST /chat (mcp_chat)
Messages == {"hi", "open tickets"}

\* conversation_history: up to MaxHistory earlier messages
Histories ==
    UNION {[1..n -> {[role |-> "user", content |-> "hi"]}] : n \in 0..MaxHistory}

\* session_id "" stands for None.
Requests ==
    [message : Messages, conversation_history : Histories,
     session_id : {"", "s1"}, use_test : BOOLEAN, force_mcp : BOOLEAN]

\* line 55: url = N8N_WEBHOOK_TEST_URL if use_test else N8N_WEBHOOK_URL
WebhookUrl(use_test) == IF use_test THEN "webhook-test" ELSE "webhook"

\* line 60: session_id or "anonymous"
SessionOrAnonymous(session_id) == IF session_id = "" THEN "anonymous" ELSE session_id

\* What a call gives: a json value (a dict with or without the key "answer",
\* a list, null; size is its number of entries) or an exception.
Raised == [kind |-> "raise", size |-> 0, has_answer |-> FALSE]
AnswerDict == [kind |-> "dict", size |-> 2, has_answer |-> TRUE]
OutputDict == [kind |-> "dict", size |-> 1, has_answer |-> FALSE]
EmptyDict == [kind |-> "dict", size |-> 0, has_answer |-> FALSE]
ItemList == [kind |-> "list", size |-> 1, has_answer |-> FALSE]
EmptyList == [kind |-> "list", size |-> 0, has_answer |-> FALSE]

\* lines 66-68: the POST fails, raise_for_status raises, or response.json()
\* gives whatever body the workflow answered
N8nOutcomes == {Raised, AnswerDict, OutputDict, EmptyDict, ItemList, EmptyList, Null}

\* lines 93-99 and ai.py 676-732: chat_with_tickets returns a dict that has
\* an answer, or raises
McpOutcomes == {Raised, AnswerDict}

\* "if result:"
Truthy(value) == value.size > 0

\* Lines 160-170: the response made of a result; result.get on a list raises
\* AttributeError, which the server answers with 500.
Respond(value, from) ==
    IF ~Truthy(value) THEN [status_code |-> 500, answer |-> "", source |-> ""]
    ELSE IF value.kind # "dict" THEN [status_code |-> 500, answer |-> "", source |-> ""]
    ELSE [status_code |-> 200,
          answer |-> IF value.has_answer THEN "answer" ELSE "No response",
          source |-> from]

Called(callee) ==
    [call |-> callee,
     url |-> IF callee = "n8n" THEN WebhookUrl(request.use_test) ELSE "",
     session_id |-> IF callee = "n8n" THEN SessionOrAnonymous(request.session_id)
                    ELSE request.session_id,
     outcome |-> Null]

Ended(log, outcome) == [log EXCEPT ![Len(log)].outcome = outcome]

\* Lines 119-143: the handler up to its first await.
ChatCall ==
    /\ chat_pc = "called"
    /\ chat_pc' = IF request.force_mcp THEN "mcp" ELSE "n8n"
    /\ chat_log' = Append(chat_log, Called(chat_pc'))
    /\ UNCHANGED <<request, result, source, response, outsideChat>>

\* Lines 138-157, 160-170: the n8n call ends; when it raised the fallback is
\* called, otherwise the response is made of its result.
N8nDone(outcome) ==
    /\ chat_pc = "n8n"
    /\ IF outcome = Raised
       THEN /\ chat_pc' = "mcp"
            /\ chat_log' = Append(Ended(chat_log, outcome), Called("mcp"))
            /\ UNCHANGED <<result, source, response>>
       ELSE /\ chat_pc' = "responded"
            /\ chat_log' = Ended(chat_log, outcome)
            /\ result' = outcome
            /\ source' = "n8n"
            /\ response' = Respond(outcome, "n8n")
    /\ UNCHANGED <<request, outsideChat>>

\* Lines 128-133, 150-157, 160-170: the fallback ends.
McpDone(outcome) ==
    /\ chat_pc = "mcp"
    /\ chat_pc' = "responded"
    /\ chat_log' = Ended(chat_log, outcome)
    /\ IF outcome = Raised
       THEN /\ response' = [status_code |-> 500, answer |-> "", source |-> ""]
            /\ UNCHANGED <<result, source>>
       ELSE /\ result' = outcome
            /\ source' = "mcp"
            /\ response' = Respond(outcome, "mcp")
    /\ UNCHANGED <<request, outsideChat>>

NextChat ==
    \/ ChatCall
    \/ \E outcome \in N8nOutcomes : N8nDone(outcome)
    \/ \E outcome \in McpOutcomes : McpDone(outcome)

InitChat ==
    /\ FetchIdle
    /\ StoreIdle
    /\ SyncIdle
    /\ EmbedIdle
    /\ RecordIdle
    /\ request \in Requests
    /\ chat_pc = "called"
    /\ chat_log = <<>>
    /\ result = Null
    /\ source = "unknown"
    /\ response = NoResponse

SpecChat == InitChat /\ [][NextChat]_vars

\* ------------------------------------------------ sync_table
\* embedding_service.py TABLE_CONFIGS: "tickets" enabled, "time_entries" not
EmbedTables == {"tickets", "time_entries"}

\* embedding_service.py line 225
is_table_enabled(name) == name = "tickets"

\* A row: whether its embedding column is set, and the length of the text
\* prepare_text_for_embedding makes of it, stripped.
TableRows == [embedded : BOOLEAN, text_len : {5, 6}]

Tables == UNION {[1..n -> TableRows] : n \in 0..MaxRows}

\* line 118: text and len(text.strip()) > 5
Meaningful(row) == row.text_len > 5

\* lines 71-74, 103-105: every row when force, otherwise .is_("embedding",
\* "null"); the ids in the order of the table
Selected(all, force) ==
    SelectSeq([i \in DOMAIN all |-> i], LAMBDA i : force \/ ~all[i].embedded)

\* line 107: .range(offset, offset + batch_size - 1) of the selected rows
RangeOf(ids, from, size) ==
    SubSeq(ids, from + 1, IF from + size < Len(ids) THEN from + size ELSE Len(ids))

\* Mutant of AfterCount: a dry run goes on to the batches.
AfterCountEmbedsAnyway(total, dry_run) == IF total = 0 THEN "done" ELSE "batch"

\* lines 81-95: return when nothing is to do and on a dry run, else the loop
AfterCount(total, dry_run) == IF total = 0 \/ dry_run THEN "done" ELSE "batch"

\* Lines 64-95: the count is taken; a table not enabled, an empty count and a
\* dry run end the call, otherwise the batches start at offset 0.
EmbedCount ==
    /\ embed_pc = "count"
    /\ LET total == Len(Selected(table_rows, manager.force))
       IN IF ~is_table_enabled(embed_table)
          THEN /\ embed_pc' = "done"
               /\ UNCHANGED <<total_records, embed_stats>>
          ELSE /\ total_records' = total
               /\ embed_pc' = AfterCount(total, manager.dry_run)
               /\ embed_stats' = IF total # 0 /\ manager.dry_run
                                 THEN [ZeroStats EXCEPT !.processed = total]
                                 ELSE embed_stats
    /\ UNCHANGED <<embed_table, table_rows, rows_at_start, manager, offset, batch,
                   embed_faults, outsideEmbed>>

\* Lines 96-132: the loop test and the batch query, up to the call of
\* generate_embeddings_batch; the rows without meaningful text are skipped.
EmbedBatch ==
    /\ embed_pc = "batch"
    /\ LET records == IF offset < total_records
                      THEN RangeOf(Selected(table_rows, manager.force), offset,
                                   manager.batch_size)
                      ELSE <<>>
           valid_records == SelectSeq(records, LAMBDA i : Meaningful(table_rows[i]))
       IN IF records = <<>>
          THEN /\ embed_pc' = "done"
               /\ UNCHANGED <<offset, embed_stats, batch>>
          ELSE /\ embed_stats' =
                      [embed_stats EXCEPT
                          !.skipped = @ + Len(records) - Len(valid_records)]
               /\ IF valid_records = <<>>
                  THEN /\ offset' = offset + manager.batch_size
                       /\ UNCHANGED <<embed_pc, batch>>
                  ELSE /\ embed_pc' = "generate"
                       /\ batch' = [records |-> records, valid_records |-> valid_records]
                       /\ UNCHANGED offset
    /\ UNCHANGED <<embed_table, table_rows, rows_at_start, manager, total_records,
                   embed_faults, outsideEmbed>>

NoBatch == [records |-> <<>>, valid_records |-> <<>>]

\* Lines 132-165: the embeddings arrive, every valid row is updated, the
\* offset advances and the 0.5 s sleep starts.
EmbeddingsGenerated ==
    /\ embed_pc = "generate"
    /\ table_rows' = [i \in DOMAIN table_rows |->
                         IF i \in Range(batch.valid_records)
                         THEN [table_rows[i] EXCEPT !.embedded = TRUE]
                         ELSE table_rows[i]]
    /\ embed_stats' = [embed_stats EXCEPT
                          !.embedded = @ + Len(batch.valid_records),
                          !.processed = @ + Len(batch.records)]
    /\ offset' = offset + manager.batch_size
    /\ batch' = NoBatch
    /\ embed_pc' = "sleep"
    /\ UNCHANGED <<embed_table, rows_at_start, manager, total_records,
                   embed_faults, outsideEmbed>>

\* Lines 167-171: generate_embeddings_batch raised; the batch is counted as
\* errors and the loop goes on with the next offset.
EmbeddingsFailed ==
    /\ embed_pc = "generate"
    /\ embed_faults < MaxEmbedFaults
    /\ embed_faults' = embed_faults + 1
    /\ embed_stats' = [embed_stats EXCEPT !.errors = @ + manager.batch_size]
    /\ offset' = offset + manager.batch_size
    /\ batch' = NoBatch
    /\ embed_pc' = "batch"
    /\ UNCHANGED <<embed_table, table_rows, rows_at_start, manager, total_records,
                   outsideEmbed>>

\* Line 165 ends.
EmbedSleepDone ==
    /\ embed_pc = "sleep"
    /\ embed_pc' = "batch"
    /\ UNCHANGED <<embed_table, table_rows, rows_at_start, manager, total_records,
                   offset, embed_stats, batch, embed_faults, outsideEmbed>>

NextEmbed ==
    \/ EmbedCount
    \/ EmbedBatch
    \/ EmbeddingsGenerated
    \/ EmbeddingsFailed
    \/ EmbedSleepDone

InitEmbed ==
    /\ FetchIdle
    /\ StoreIdle
    /\ SyncIdle
    /\ ChatIdle
    /\ RecordIdle
    /\ embed_table \in EmbedTables
    /\ table_rows \in Tables
    /\ rows_at_start = table_rows
    /\ manager \in [batch_size : 1..MaxBatch, force : BOOLEAN, dry_run : BOOLEAN]
    /\ total_records = 0
    /\ offset = 0
    /\ embed_pc = "count"
    /\ embed_stats = ZeroStats
    /\ batch = NoBatch
    /\ embed_faults = 0

SpecEmbed == InitEmbed /\ [][NextEmbed]_vars

\* ------------------------------------------------ the record of a ticket
\* A ticket object as the Tickets/query lists it: a dict with "id" and some of
\* the other fields of an Autotask ticket.
Titles == {"a", "b"}

TicketObjects ==
    [id : 1..MaxId] \cup [id : 1..MaxId, title : Titles]
        \cup [id : 1..MaxId, title : Titles, companyID : 1..MaxId]

\* What fetch_with_retry returned for the notes or the time entries.
Fetched(entity, id) == {<<>>, ItemsOf(entity, id), NoneVal}

\* {**ticket, "notes": notes, "time_entries": time_entries}: a new dict with
\* the items of ticket, then the two keys (a later key wins)
Unpacked(ticket, notes, time_entries) ==
    [k \in DOMAIN ticket \cup {"notes", "time_entries"} |->
        IF k = "notes" THEN notes
        ELSE IF k = "time_entries" THEN time_entries
        ELSE ticket[k]]

\* Mutant of WithDetails: ticket.update(...) and return ticket.
WithDetailsInPlace(ticket, notes, time_entries) ==
    [ticket |-> Unpacked(ticket, notes, time_entries),
     record |-> Unpacked(ticket, notes, time_entries)]

\* lines 161-165, 168: the dict returned and the ticket object afterwards
WithDetails(ticket, notes, time_entries) ==
    [ticket |-> ticket, record |-> Unpacked(ticket, notes, time_entries)]

\* Lines 159-165: both sub-requests returned lists; the record is returned.
RecordReturned ==
    /\ detail.pc = "fetched"
    /\ ~LenRaises(detail.notes, detail.time_entries)
    /\ LET built == WithDetails(detail.ticket, detail.notes, detail.time_entries)
       IN detail' = [detail EXCEPT !.pc = "returned", !.ticket = built.ticket,
                                   !.record = built.record]
    /\ UNCHANGED outsideRecord

\* Lines 159, 166-168: len() raised on a None; the except clause returns the
\* ticket with empty lists.
RecordDegraded ==
    /\ detail.pc = "fetched"
    /\ LenRaises(detail.notes, detail.time_entries)
    /\ LET built == WithDetails(detail.ticket, <<>>, <<>>)
       IN detail' = [detail EXCEPT !.pc = "degraded", !.ticket = built.ticket,
                                   !.record = built.record]
    /\ UNCHANGED outsideRecord

NextRecord == RecordReturned \/ RecordDegraded

\* The end of the try block of one detail fetch, on any ticket object and any
\* results of its two sub-requests.
InitRecord ==
    /\ FetchIdle
    /\ StoreIdle
    /\ SyncIdle
    /\ ChatIdle
    /\ EmbedIdle
    /\ \E ticket \in TicketObjects :
       \E notes \in Fetched("notes", ticket.id) :
       \E time_entries \in Fetched("time_entries", ticket.id) :
           detail = [pc |-> "fetched", received |-> ticket, ticket |-> ticket,
                     notes |-> notes, time_entries |-> time_entries,
                     record |-> NoDict]

SpecRecord == InitRecord /\ [][NextRecord]_vars

\* ---------------------------------------------------------------- claims
\* The fetch_with_retry activations that exist, with their ticket and entity.
Calls ==
    UNION {{[ticket |-> tasks[t].ticket, entity |-> "notes", f |-> tasks[t].nf],
            [ticket |-> tasks[t].ticket, entity |-> "time_entries", f |-> tasks[t].tf]}
           : t \in DOMAIN tasks}

Front(s) == SubSeq(s, 1, Len(s) - 1)

AllRateLimited(s) == \A i \in DOMAIN s : s[i] = "r429"

Failed(resp) == resp \in {"http_err", "net_err"}

\* The page's records are the last Len(tasks) records of the accumulated list.
Gathered ==
    /\ Len(all_tickets_with_details) >= Len(tasks)
    /\ \A t \in DOMAIN tasks :
           all_tickets_with_details[Len(all_tickets_with_details) - Len(tasks) + t]
               = tasks[t].out

\* C1: at every moment the number of detail fetches that hold a limiter slot
\* (in a politeness delay, in a request or in a backoff sleep) is at most
\* concurrent_limit, and so is the number of child requests in flight.
C1_InFlightBounded ==
    /\ Cardinality(InFlight) <= concurrent_limit
    /\ Cardinality({c \in Calls : c.f.st = "req"}) <= concurrent_limit

\* C1 witness: every slot is taken, one holder sleeps in a 429 backoff and
\* another detail fetch is queued behind the limiter.
C1_Witness ==
    /\ Cardinality(InFlight) = concurrent_limit
    /\ \E t \in DOMAIN tasks : tasks[t].pc = "queued"
    /\ \E c \in Calls : c.f.st = "sleep"

\* C2: the loop stops at the first page shorter than max_tickets (an empty
\* one included): no Tickets/query is sent after it, and the run returns only
\* after such a page, with every detail fetch of that page finished and
\* gathered.
C2_StopsAtShortPage ==
    /\ \A i \in DOMAIN pageSizes : pageSizes[i] < max_tickets => Len(cursors) = i
    /\ pc = "returned" =>
           /\ pageSizes # <<>>
           /\ Last(pageSizes) < max_tickets
           /\ \A t \in DOMAIN tasks : tasks[t].pc = "done"
           /\ Gathered

\* C2 witness: the run has returned after a full page followed by a short one.
C2_Witness ==
    /\ pc = "returned"
    /\ Len(pageSizes) >= 2
    /\ Len(cursors) = Len(pageSizes)

\* C3: with an upstream that returns only ids above the cursor sent, the
\* cursors sent strictly increase and no ticket id occurs twice in the
\* accumulated list.
C3_NoIdVisitedTwice ==
    /\ \A i, j \in DOMAIN cursors : i < j => cursors[i] < cursors[j]
    /\ \A i, j \in DOMAIN all_tickets_with_details :
           i # j => all_tickets_with_details[i].ticket
                        # all_tickets_with_details[j].ticket

\* C4: after a non-empty page is processed the cursor is the maximum ticket
\* id of that page.
C4_CursorIsPageMax ==
    (pc \in {"pause", "returned"} /\ tickets # <<>>)
        => last_ticket_id = SeqMax(tickets)

\* C5: k < max_retries answers 429 and then a success: fetch_with_retry
\* returns the items of the success after exactly k sleeps of 1.5 s, 3 s, ...
\* (1.5 * 2^i), which strictly increase.
C5_BackoffThenSuccess ==
    \A c \in Calls :
        (/\ c.f.st = "ret"
         /\ c.f.responses # <<>>
         /\ Last(c.f.responses) = "ok"
         /\ AllRateLimited(Front(c.f.responses))
         /\ Len(c.f.responses) - 1 < max_retries)
        => /\ c.f.ret = ItemsOf(c.entity, c.ticket)
           /\ c.f.sleeps = SubSeq(<<1500, 3000, 6000>>, 1, Len(c.f.responses) - 1)
           /\ \A i, j \in DOMAIN c.f.sleeps : i < j => c.f.sleeps[i] < c.f.sleeps[j]

\* C5 witness: a call that returned the items after two 429 answers.
C5_Witness ==
    \E c \in Calls : c.f.st = "ret" /\ c.f.responses = <<"r429", "r429", "ok">>

\* C6: 429 on every one of the max_retries attempts: fetch_with_retry returns
\* [] and does not raise, and the detail fetch goes on with that collection
\* empty (to the second delay after notes, to its record after time entries).
C6_ExhaustedGivesEmpty ==
    \A t \in DOMAIN tasks :
        /\ (Len(tasks[t].nf.responses) = max_retries
                /\ AllRateLimited(tasks[t].nf.responses))
           => \/ tasks[t].nf.st = "sleep" /\ tasks[t].pc = "notes"
              \/ /\ tasks[t].nf.st = "ret"
                 /\ tasks[t].nf.ret = <<>>
                 /\ tasks[t].pc = "delay2"
                 /\ tasks[t].notes = <<>>
        /\ (Len(tasks[t].tf.responses) = max_retries
                /\ AllRateLimited(tasks[t].tf.responses))
           => \/ tasks[t].tf.st = "sleep" /\ tasks[t].pc = "time_entries"
              \/ /\ tasks[t].tf.st = "ret"
                 /\ tasks[t].tf.ret = <<>>
                 /\ tasks[t].pc = "done"
                 /\ tasks[t].out.ticket = tasks[t].ticket
                 /\ tasks[t].out.time_entries = <<>>

\* C6 witness: a detail fetch finished after its time-entries call was
\* answered 429 three times, with its notes intact.
C6_Witness ==
    \E t \in DOMAIN tasks :
        /\ tasks[t].pc = "done"
        /\ tasks[t].tf.responses = <<"r429", "r429", "r429">>
        /\ tasks[t].out.notes = NotesOf(tasks[t].ticket)

\* C7: an HTTP error status other than 429, a network failure or any other
\* exception ends fetch_with_retry at once: it has returned [], with no sleep
\* for that failure and no attempt after it.
C7_NoRetryOnOtherFailure ==
    \A c \in Calls :
        (c.f.responses # <<>> /\ Failed(Last(c.f.responses)))
        => /\ c.f.st = "ret"
           /\ c.f.ret = <<>>
           /\ Len(c.f.sleeps) = Len(c.f.responses) - 1
           /\ c.f.attempt = Len(c.f.responses) - 1

\* C7 witness: one call ended by an HTTP error status on its first attempt
\* and one ended by a network failure.
C7_Witness ==
    /\ \E c \in Calls : c.f.st = "ret" /\ c.f.responses = <<"http_err">>
    /\ \E c \in Calls : c.f.st = "ret" /\ Last(c.f.responses) = "net_err"

\* C8: every backoff sleep is followed by another attempt: a call that has
\* returned has answered requests after each of its sleeps.
C8_SleepThenRetry ==
    \A c \in Calls : c.f.st = "ret" => Len(c.f.sleeps) < Len(c.f.responses)

\* C9: the two sub-requests fail independently.  The time-entries request is
\* made whatever became of the notes; a finished fetch whose notes failed
\* returns the time entries of the upstream, one whose time entries failed
\* returns the notes of the upstream, only the failed collection is empty,
\* and a ticket whose two requests succeeded has both, whatever happened to
\* the other tickets; the page yields one record per ticket.
\* (The upstream holds notes for every ticket, so notes = [] is a failure.)
C9_IndependentFailures ==
    /\ \A t \in DOMAIN tasks :
           tasks[t].pc = "done" =>
               LET ok == Last(tasks[t].tf.responses) = "ok"
                   lost == \/ Failed(Last(tasks[t].tf.responses))
                           \/ Last(tasks[t].tf.responses) = "r429"
               IN /\ tasks[t].tf.st = "ret"
                  /\ tasks[t].out.ticket = tasks[t].ticket
                  /\ (tasks[t].notes = <<>> /\ ok)
                         => /\ tasks[t].out.notes = <<>>
                            /\ tasks[t].out.time_entries
                                   = TimeEntriesOf(tasks[t].ticket)
                  /\ (tasks[t].notes = NotesOf(tasks[t].ticket) /\ lost)
                         => /\ tasks[t].out.notes = NotesOf(tasks[t].ticket)
                            /\ tasks[t].out.time_entries = <<>>
                  /\ (tasks[t].notes = NotesOf(tasks[t].ticket) /\ ok)
                         => /\ tasks[t].out.notes = NotesOf(tasks[t].ticket)
                            /\ tasks[t].out.time_entries
                                   = TimeEntriesOf(tasks[t].ticket)
    /\ (pc \in {"pause", "returned"} /\ tickets # <<>>) => Gathered

\* C9 witness: a gathered page of two tickets, the first with failed time
\* entries and its notes, the second with failed notes and its time entries.
C9_Witness ==
    /\ pc \in {"pause", "returned"}
    /\ Len(tasks) = 2
    /\ Failed(Last(tasks[1].tf.responses))
    /\ tasks[1].out.notes = NotesOf(tasks[1].ticket)
    /\ tasks[2].notes = <<>>
    /\ tasks[2].out.time_entries = TimeEntriesOf(tasks[2].ticket)

\* C10: an unexpected exception in the detail fetch of a ticket, wherever it
\* is raised, never leaves the detail fetch (so the run is not aborted): the
\* fetch ends with the ticket's record, notes = [] and time_entries = [].
C10_ExceptionNeverEscapes ==
    \A t \in DOMAIN tasks :
        tasks[t].exc => /\ tasks[t].pc = "done"
                        /\ tasks[t].out = DegradedRecord(tasks[t].ticket)

\* A Tickets/query was sent and the run went on without its response.
PageRequestFailed == Len(cursors) > Len(pageSizes) /\ pc # "tickets_query"

\* C11: when a Tickets/query fails, on whichever page, the run has raised (it
\* returns no list, whatever earlier pages delivered), no detail fetch is
\* running and no step of the run, so no page or child request, follows.
C11_PageFailureAbortsRun ==
    PageRequestFailed =>
        /\ pc = "raised"
        /\ \A t \in DOMAIN tasks : tasks[t].pc = "done"
        /\ ~ENABLED Next

\* The second page's request failed after the first page's records were kept.
C11_Witness ==
    /\ PageRequestFailed
    /\ Len(cursors) >= 2
    /\ Len(all_tickets_with_details) > 0

Max(S) == CHOOSE x \in S : \A y \in S : y <= x

C13_SlotsReleased ==
    /\ semaphore = concurrent_limit - Cardinality(InFlight)
    /\ InFlight = {} => semaphore = concurrent_limit

\* A page has been gathered in which a detail fetch raised inside its try
\* block, and every slot is free again.
C13_Witness ==
    /\ pc \in {"pause", "returned"}
    /\ \E t \in DOMAIN tasks : tasks[t].exc /\ tasks[t].pc = "done"
    /\ semaphore = concurrent_limit

NonDecreasing(s) == \A i, j \in DOMAIN s : i <= j => s[i] <= s[j]

FailedUpserts(table) ==
    {k \in DOMAIN store_log :
        /\ store_log[k].op = "upsert"
        /\ store_log[k].table = table
        /\ store_log[k].outcome \in UpsertErrors}

\* The ticket upsert of the ticket had put its row before log position k.
TicketRowPutBefore(k) ==
    \E j \in 1..(k - 1) :
        /\ store_log[j].op = "upsert"
        /\ store_log[j].table = "tickets"
        /\ store_log[j].ticket = store_log[k].ticket
        /\ store_log[j].outcome \notin UpsertErrors

\* The step after log position k is the upsert into the table for the ticket:
\* it is in the log, or it is the step the storage is about to make.
ThenUpserts(k, table, id) ==
    IF k < Len(store_log)
    THEN /\ store_log[k + 1].op = "upsert"
         /\ store_log[k + 1].table = table
         /\ store_log[k + 1].ticket = id
    ELSE /\ store_pc = (IF table = "tickets" THEN "ticket" ELSE table)
         /\ tickets_data[idx].ticket = id

\* C14: a notes or time-entries upsert that raises leaves the ticket row put
\* before it in the table and appends its message to stats.errors; after a
\* failed notes upsert the time entries of the ticket are still upserted, and
\* after a failed time-entries upsert the next ticket is processed.
C14_DetailFailureKeepsTicket ==
    /\ \A k \in FailedUpserts("ticket_notes") :
           LET id == store_log[k].ticket
           IN /\ TicketRowPutBefore(k) => id \in db.tickets
              /\ <<"Notes", id>> \in Range(stats.errors)
              /\ tickets_data[id].time_entries # <<>>
                     => ThenUpserts(k, "time_entries", id)
    /\ \A k \in FailedUpserts("time_entries") :
           LET id == store_log[k].ticket
           IN /\ TicketRowPutBefore(k) => id \in db.tickets
              /\ <<"Time entries", id>> \in Range(stats.errors)
              /\ IF id < Len(tickets_data)
                 THEN ThenUpserts(k, "tickets", id + 1)
                 ELSE store_pc = "done"

\* Ticket 1 was stored, its notes upsert and its time-entries upsert both
\* raised, and ticket 2 has been stored after that.
C14_Witness ==
    /\ store_pc = "done"
    /\ FailedUpserts("ticket_notes") # {}
    /\ FailedUpserts("time_entries") # {}
    /\ <<"Notes", 1>> \in Range(stats.errors)
    /\ <<"Time entries", 1>> \in Range(stats.errors)
    /\ db.tickets = {1, 2}

IsUpsert(k, table) ==
    store_log[k].op = "upsert" /\ store_log[k].table = table

\* The upserts into the table made for the record at a position of the list.
UpsertsAt(table, at) ==
    {k \in DOMAIN store_log : IsUpsert(k, table) /\ store_log[k].at = at}

\* The ticket upserts of the record of log position k that raised, up to k.
FailuresUpTo(k) ==
    Cardinality({j \in UpsertsAt("tickets", store_log[k].at) :
                    j <= k /\ store_log[j].outcome \in UpsertErrors})

\* C16 as stated: the Tickets/query and the upserts of tickets, notes and time
\* entries are each made once and never followed by a wait and a new attempt.
C16_OnlyDetailFetchRetries ==
    /\ PageRequestFailed => pc = "raised"
    /\ Len(cursors) <= Len(pageSizes) + 1
    /\ \A k \in DOMAIN store_log : store_log[k].op # "sleep"
    /\ \A at \in DOMAIN tickets_data :
           \A table \in {"tickets", "ticket_notes", "time_entries"} :
               Cardinality(UpsertsAt(table, at)) <= 1

\* Log position k is the last of the log and the storage is at the position.
Pending(k, position) == k = Len(store_log) /\ store_pc = position

\* C16 amended: the Tickets/query is made once per page and the notes and
\* time-entries upserts once per record; the ticket upsert is made again
\* after a retriable error, while fewer than 3 attempts have raised, following
\* a wait of 2 s, then 4 s, and at once when it returned no rows.
C16_TicketUpsertRetries ==
    /\ PageRequestFailed => pc = "raised"
    /\ Len(cursors) <= Len(pageSizes) + 1
    /\ \A at \in DOMAIN tickets_data :
           \A table \in {"ticket_notes", "time_entries"} :
               Cardinality(UpsertsAt(table, at)) <= 1
    /\ \A k \in DOMAIN store_log :
           LET e == store_log[k]
               again(j) == \/ Pending(j, "ticket") /\ idx = e.at
                           \/ /\ j < Len(store_log)
                              /\ IsUpsert(j + 1, "tickets")
                              /\ store_log[j + 1].at = e.at
           IN /\ (IsUpsert(k, "tickets") /\ e.outcome = "empty") => again(k)
              /\ (IsUpsert(k, "tickets") /\ e.outcome = "data")
                     => ~again(k) /\ k = Max(UpsertsAt("tickets", e.at))
              /\ (IsUpsert(k, "tickets") /\ e.outcome \in UpsertErrors) =>
                     IF is_retriable(e.outcome) /\ FailuresUpTo(k) < upsert_max_retries
                     THEN \/ Pending(k, "sleep") /\ idx = e.at
                          \/ /\ k < Len(store_log)
                             /\ store_log[k + 1].op = "sleep"
                             /\ store_log[k + 1].outcome = 2 ^ FailuresUpTo(k)
                             /\ again(k + 1)
                     ELSE ~again(k) /\ k = Max(UpsertsAt("tickets", e.at))
              /\ e.op = "sleep" =>
                     /\ IsUpsert(k - 1, "tickets")
                     /\ is_retriable(store_log[k - 1].outcome)

\* The ticket upsert of the first record raised a timeout three times, with
\* waits of 2 s and 4 s in between, and the storage has ended.
C16_Witness ==
    /\ store_pc = "done"
    /\ Len(store_log) >= 5
    /\ \A k \in {1, 3, 5} :
           IsUpsert(k, "tickets") /\ store_log[k].outcome = "timeout"
                                  /\ store_log[k].at = 1
    /\ store_log[2] = Slept(1, 2)
    /\ store_log[4] = Slept(1, 4)
    /\ <<"Ticket", tickets_data[1].ticket>> \in Range(stats.errors)

NothingStored == db = EmptyDb /\ store_log = <<>>

\* C17: in each of the three routes nothing is stored while the fetch runs;
\* the storage is called only when the fetch has returned, with the whole list
\* it returned; when the fetch raised the route answers 500 and nothing of
\* the pages received before is stored.
C17_StoreAfterCompleteFetch ==
    /\ sync_pc \in {"called", "fetch"} => NothingStored /\ store_pc = "idle"
    /\ store_pc # "idle" =>
           /\ sync_pc \in {"store", "responded"}
           /\ pc = "returned"
           /\ tickets_data = all_tickets_with_details
    /\ pc = "raised" =>
           /\ NothingStored /\ store_pc = "idle"
           /\ sync_pc = "responded" => http_status = 500

\* The fetch had kept the records of a first page when a later Tickets/query
\* failed; the route has answered 500 and the tables are empty.
C17_Witness ==
    /\ endpoint \in Endpoints
    /\ sync_pc = "responded"
    /\ pc = "raised"
    /\ Len(all_tickets_with_details) > 0
    /\ http_status = 500
    /\ NothingStored

\* The request's dates do not parse, or parse to a start not before the end.
BadDates ==
    LET start == fromisoformat(start_date)
        end == fromisoformat(end_date)
    IN \/ start.err
       \/ end.err
       \/ start.aware = end.aware /\ start.day >= end.day

\* The request's dates parse, one with a UTC offset and one without: comparing
\* them raises TypeError.
MixedDates ==
    LET start == fromisoformat(start_date)
        end == fromisoformat(end_date)
    IN ~start.err /\ ~end.err /\ start.aware # end.aware

\* The custom route has answered 400, having sent nothing upstream and
\* stored nothing.
Rejected ==
    /\ http_status = 400
    /\ pc = "not_called"
    /\ cursors = <<>>
    /\ NothingStored /\ store_pc = "idle"

\* C18 as stated: the custom route answers bad dates with 400, sending and
\* storing nothing, the 400 is not turned into a 500, and every other failure
\* of the fetch or of the storage is answered with 500.
C18_BadDates400Failures500 ==
    sync_pc = "responded" =>
        /\ (endpoint = "custom" /\ BadDates) => Rejected
        /\ (pc = "raised" \/ stats.errors # <<>>) => http_status = 500

\* C18 amended: bad dates are answered with 400 and nothing else is; a fetch
\* that raised is answered with 500, and so are dates that cannot be compared;
\* once the fetch has returned the answer is 200 whatever upserts raised in
\* the storage: those are only listed in the statistics.
C18_BadDates400FetchFailure500 ==
    sync_pc = "responded" =>
        /\ (endpoint = "custom" /\ BadDates) <=> http_status = 400
        /\ http_status = 400 => Rejected
        /\ http_status = 500 <=> (pc = "raised" \/ (endpoint = "custom" /\ MixedDates))
        /\ http_status = 200 <=> pc = "returned"
        /\ pc = "returned" => store_pc = "done"
        /\ http_status \in {200, 400, 500}

\* The custom route has answered 200 after a storage in which an upsert
\* raised.
C18_Witness ==
    /\ endpoint = "custom"
    /\ sync_pc = "responded"
    /\ http_status = 200
    /\ stats.errors # <<>>

CallsTo(callee) == {k \in DOMAIN chat_log : chat_log[k].call = callee}

N8nRaised == CallsTo("n8n") # {} /\ chat_log[1].outcome = Raised

\* C19: with force_mcp false the n8n webhook is called first and once, the
\* fallback is called exactly when the n8n call raised, the source answered is
\* "n8n" exactly when the n8n result is answered and "mcp" exactly when the
\* fallback's is, and 500 is answered only when both calls raised; with
\* force_mcp true the n8n webhook is never called.
C19_FallbackIffN8nRaised ==
    chat_pc = "responded" =>
        IF request.force_mcp
        THEN CallsTo("n8n") = {}
        ELSE /\ chat_log[1].call = "n8n"
             /\ Cardinality(CallsTo("n8n")) = 1
             /\ CallsTo("mcp") # {} <=> N8nRaised
             /\ response.source = "n8n" <=> (response.status_code = 200 /\ ~N8nRaised)
             /\ response.source = "mcp" <=> (response.status_code = 200 /\ N8nRaised)
             /\ response.status_code = 500 =>
                    N8nRaised /\ chat_log[Len(chat_log)].outcome = Raised

\* C20: when sync_table has ended with force and dry_run false, on an enabled
\* table and with no error, every row whose embedding was null at the start
\* and whose text is meaningful has its embedding set.
C20_EveryNullRowEmbedded ==
    (/\ embed_pc = "done"
     /\ ~manager.force
     /\ ~manager.dry_run
     /\ is_table_enabled(embed_table)
     /\ embed_faults = 0)
        => \A i \in DOMAIN rows_at_start :
               (~rows_at_start[i].embedded /\ Meaningful(rows_at_start[i]))
                   => table_rows[i].embedded


\* The steps of one detail fetch, in the order of lines 105-168: slot taken,
\* 0.3 s delay over (notes request out), notes resolved, 0.2 s delay over
\* (time-entries request out), time entries resolved and slot given back; a
\* ticket without "id" leaves before its first step.
StepsInOrder ==
    {<<"queued", "delay1">>, <<"queued", "raised">>, <<"delay1", "notes">>,
     <<"notes", "notes">>, <<"notes", "delay2">>, <<"delay2", "time_entries">>,
     <<"time_entries", "time_entries">>, <<"time_entries", "done">>}

\* What the two fetch_with_retry activations of a detail fetch may be doing
\* at each of its steps.
RequestsInStep(task) ==
    /\ task.pc \in {"queued", "delay1", "raised"} =>
           task.nf = IdleFrame /\ task.tf = IdleFrame
    /\ task.pc = "notes" => task.nf.st \in {"req", "sleep"} /\ task.tf = IdleFrame
    /\ task.pc = "delay2" => task.nf.st = "ret" /\ task.tf = IdleFrame
    /\ task.pc = "time_entries" =>
           task.nf = IdleFrame /\ task.tf.st \in {"req", "sleep"}
    /\ task.pc = "done" => task.nf = IdleFrame /\ task.tf.st = "ret"

StepInOrder(t) ==
    \/ tasks'[t] = tasks[t]
    \/ /\ <<tasks[t].pc, tasks'[t].pc>> \in StepsInOrder
       /\ tasks[t].pc = "queued" /\ tasks'[t].pc = "delay1" =>
              semaphore > 0 /\ semaphore' = semaphore - 1
       /\ tasks'[t].pc = "done" /\ tasks[t].pc # "done" =>
              semaphore' = semaphore + 1
       /\ tasks[t].pc \in Running /\ tasks'[t].pc \in Running =>
              semaphore' = semaphore

\* C21: a detail fetch takes its steps in order: slot, delay, notes request
\* with its retries and backoff sleeps, second delay, time-entries request
\* with its retries, slot given back.  A child request is out or slept on only
\* while the slot is held, and the time-entries request only after the notes
\* sub-request has resolved.
C21_StepsInOrder ==
    /\ [](\A t \in DOMAIN tasks :
              /\ RequestsInStep(tasks[t])
              /\ tasks[t].pc \in {"notes", "time_entries"} => t \in InFlight)
    /\ [][pc # "tickets_query" /\ tasks' # <<>> =>
              /\ DOMAIN tasks' = DOMAIN tasks
              /\ \A t \in DOMAIN tasks : StepInOrder(t)]_vars

\* A detail fetch has gone through every step, its time-entries request was
\* rate limited once and retried after the backoff sleep, and its slot is free.
C21_Witness ==
    \E t \in DOMAIN tasks :
        /\ tasks[t].pc = "done"
        /\ tasks[t].tf.responses = <<"r429", "ok">>
        /\ Len(tasks[t].tf.sleeps) = 1
        /\ ~tasks[t].exc
        /\ semaphore = concurrent_limit


\* C22: the pages are worked one after another.  A Tickets/query is out only
\* when no detail fetch is left unfinished, the detail fetches that exist are
\* those of the page received last, a new Tickets/query is sent only by the end
\* of the inter-batch pause, and that pause begins only when every detail
\* fetch of a full page (max_tickets tickets) has completed.
C22_PagesOneByOne ==
    /\ [](/\ pc \in {"tickets_query", "pause", "returned"} =>
                 \A t \in DOMAIN tasks : tasks[t].pc = "done"
          /\ pc # "tickets_query" =>
                 /\ DOMAIN tasks = DOMAIN tickets
                 /\ \A t \in DOMAIN tasks : tasks[t].ticket = tickets[t]
          /\ pc = "pause" => Len(tickets) = max_tickets
          /\ pc = "returned" => Len(tickets) < max_tickets)
    /\ [][/\ pc' = "tickets_query" /\ pc # "tickets_query" =>
                 pc = "pause" /\ Len(cursors') = Len(cursors) + 1
          /\ pc' = "pause" /\ pc # "pause" =>
                 pc = "gather" /\ UNCHANGED <<tickets, tasks>>
          /\ Len(cursors') > Len(cursors) => pc = "pause"]_vars

\* The second Tickets/query is out: the first page was full, its two detail
\* fetches are over and the pause has elapsed.
C22_Witness ==
    /\ pc = "tickets_query"
    /\ Len(cursors) = 2
    /\ Len(tasks) = 2
    /\ max_tickets = 2
    /\ \A t \in DOMAIN tasks : tasks[t].pc = "done"


\* C23: the list returned is ordered by page and, within a page, as the
\* upstream listed the tickets: the list changes only when a page is gathered,
\* and then the page's records are appended to it in the order of the listing,
\* whatever the order in which the detail fetches have finished.
C23_ListingOrderKept ==
    [][all_tickets_with_details' # all_tickets_with_details =>
           /\ pc = "gather"
           /\ Len(all_tickets_with_details') =
                  Len(all_tickets_with_details) + Len(tickets)
           /\ SubSeq(all_tickets_with_details', 1, Len(all_tickets_with_details))
                  = all_tickets_with_details
           /\ \A i \in DOMAIN tickets :
                  all_tickets_with_details'[Len(all_tickets_with_details) + i].ticket
                      = tickets[i]]_vars

\* Two pages have been gathered with two slots: the first listed ticket 2
\* before ticket 1, the second listed ticket 2, and the list holds the records
\* in that order (the two fetches of the first page ran side by side and
\* finished in either order).
C23_Witness ==
    /\ pc = "returned"
    /\ concurrent_limit = 2
    /\ pageSizes = <<2, 1>>
    /\ Len(all_tickets_with_details) = 3
    /\ all_tickets_with_details[1].ticket = 2
    /\ all_tickets_with_details[2].ticket = 1
    /\ all_tickets_with_details[3].ticket = 2


\* The waits of the log made for the record at a position, in order.
WaitsAt(at) ==
    LET ks == {k \in DOMAIN store_log :
                   store_log[k].op = "sleep" /\ store_log[k].at = at}
        nth(k) == Cardinality({j \in ks : j <= k})
    IN [n \in 1..Cardinality(ks) |->
           store_log[CHOOSE k \in ks : nth(k) = n].outcome]

\* A retriable error of a ticket upsert.
RetriableFailure(k) ==
    IsUpsert(k, "tickets") /\ is_retriable(store_log[k].outcome)

C25_DryRunOnlyCounts ==
    manager.dry_run =>
        /\ table_rows = rows_at_start
        /\ embed_pc \in {"idle", "count", "done"}
        /\ batch = NoBatch
        /\ embed_faults = 0
        /\ offset = 0
        /\ embed_pc = "done" =>
               embed_stats =
                   [ZeroStats EXCEPT !.processed =
                       IF is_table_enabled(embed_table)
                       THEN Len(Selected(rows_at_start, manager.force))
                       ELSE 0]

\* A dry run on an enabled table with rows to embed has ended: it reports
\* their number and every one of them is still without embedding.
C25_Witness ==
    /\ manager.dry_run
    /\ ~manager.force
    /\ embed_pc = "done"
    /\ is_table_enabled(embed_table)
    /\ embed_stats.processed >= 2
    /\ embed_stats.processed = Cardinality({i \in DOMAIN table_rows :
                                               ~table_rows[i].embedded})


\* C26: the record returned for a ticket holds every field of the ticket
\* object received, with its value, and the keys notes and time_entries and
\* nothing else; the ticket object itself is as it was received.
C26_RecordKeepsTicketFields ==
    detail.pc \in {"returned", "degraded"} =>
        /\ DOMAIN detail.record =
               DOMAIN detail.received \cup {"notes", "time_entries"}
        /\ \A k \in DOMAIN detail.received : detail.record[k] = detail.received[k]
        /\ detail.pc = "returned" =>
               /\ detail.record.notes = detail.notes
               /\ detail.record.time_entries = detail.time_entries
        /\ detail.pc = "degraded" =>
               detail.record.notes = <<>> /\ detail.record.time_entries = <<>>
        /\ detail.ticket = detail.received

\* A ticket with three fields has got its record with the notes and the time
\* entries fetched for it.
C26_Witness ==
    /\ detail.pc = "returned"
    /\ DOMAIN detail.received = {"id", "title", "companyID"}
    /\ detail.record.id = detail.received.id
    /\ detail.record.notes = NotesOf(detail.received.id)
    /\ detail.record.time_entries = TimeEntriesOf(detail.received.id)


\* The detail fetches of the page that have not come to their end.
Unfinished == {t \in DOMAIN tasks : tasks[t].pc \in Running \cup {"queued"}}

\* C27: when every HTTP call and every sleep returns, a run ends: it returns
\* or raises and stays so; and whenever detail fetches are queued or running,
\* every one of them gets its slot and comes to its end, for every
\* concurrent_limit from 1 on.
C27_RunAndFetchesEnd ==
    /\ <>[](pc \in {"returned", "raised"} /\ Unfinished = {})
    /\ (Unfinished # {}) ~> (Unfinished = {})

\* With one slot for a full page of two tickets the second detail fetch had
\* to wait for the first; both have ended, their records are in the list and
\* the run has returned.
C27_Witness ==
    /\ pc = "returned"
    /\ concurrent_limit = 1
    /\ max_tickets = 2
    /\ pageSizes[1] = 2
    /\ Len(all_tickets_with_details) >= 2
    /\ semaphore = concurrent_limit


\* C28: whatever the database answers, at most 3 ticket upserts are made for
\* a ticket before the storage moves on, and when it has returned
\* tickets_inserted <= tickets_processed <= the number of input tickets.
C28_AtMostThreeUpsertsPerTicket ==
    /\ \A at \in DOMAIN tickets_data :
           Cardinality(UpsertsAt("tickets", at)) <= upsert_max_retries
    /\ store_pc = "done" =>
           /\ stats.tickets_inserted <= stats.tickets_processed
           /\ stats.tickets_processed <= Len(tickets_data)

\* The ticket upsert of the ticket succeeded (rows came back) before log
\* position k.
TicketStoredBefore(k) ==
    \E j \in 1..(k - 1) :
        /\ IsUpsert(j, "tickets")
        /\ store_log[j].at = store_log[k].at
        /\ store_log[j].outcome = "data"

\* C29: the notes and the time entries of a ticket are upserted only after
\* the upsert of the ticket's own row has succeeded; after a failed ticket
\* upsert no child row of the ticket is written.
C29_ChildrenOnlyAfterTicket ==
    \A k \in DOMAIN store_log :
        (IsUpsert(k, "ticket_notes") \/ IsUpsert(k, "time_entries"))
            => TicketStoredBefore(k)


\* The POSTs a fetch_with_retry activation has sent.
RequestsOf(f) == Len(f.responses) + (IF f.st = "req" THEN 1 ELSE 0)

\* C30: a sub-request sends at most max_retries = 3 requests, a ticket causes
\* at most 6 child requests in a run, and a sub-request whose first answer is
\* a success or a failure other than 429 has sent exactly one request.
C30_AtMostSixRequestsPerTicket ==
    /\ \A c \in Calls :
           /\ RequestsOf(c.f) <= max_retries
           /\ (c.f.responses # <<>> /\ ~IsRateLimit(c.f.responses[1])) =>
                  RequestsOf(c.f) = 1 /\ c.f.st = "ret"
    /\ child_requests # NotCounted =>
           \A id \in 1..MaxId : child_requests[id] <= 2 * max_retries

====
